---- MODULE Spec2Model ----
(***************************************************************************)
(* Model of the design canvas of MMMmain.py: the module library, the       *)
(* instances placed on the DesignCanvas, the wires between their ports,    *)
(* and the handlers that change them (loading a file, placement, dragging  *)
(* an instance, the wire gesture, deletion, new design), together with the *)
(* parser that reads module files and the generation of the top module.    *)
(*                                                                         *)
(* Representation of text.  An identifier is the sequence of the tokens    *)
(* that '_' separates in it: "mux" is <<"mux">>, "mux_1" is <<"mux","1">>. *)
(* f"{a}_{b}" is then a \o b, and str.split('_') is the sequence itself.   *)
(* A port string of the library, "a[3:0]", is the pair <<"a", "3:0">>; a   *)
(* port string without range, "a", is <<"a", "">>.                         *)
(*                                                                         *)
(* Objects.  ModuleItem objects are compared by identity in the code       *)
(* (wire.end_module == module), so every item carries an id and a new item *)
(* gets an id no live object holds.  The code can only ask whether two ids *)
(* are equal, so after each handler the ids are renamed to a canonical     *)
(* form: the items of the canvas carry 1..n in dict order, and a reference *)
(* to an item that is no longer on the canvas becomes Dead.                *)
(*                                                                         *)
(* Two specifications.  Spec is the canvas with one module type, where     *)
(* instances are dragged, wired and deleted.  SpecNames is placement and   *)
(* deletion with two module types whose names collide (mux and mux_1).     *)
(***************************************************************************)
EXTENDS Integers, Sequences, FiniteSets, TLC

VARIABLES
    library,        \* ModuleLibraryWidget.modules: type name -> ports dict
    modules,        \* DesignCanvas.modules: insertion-ordered dict, as a sequence of [key, item]
    wires,          \* DesignCanvas.wires: list of WireItem
    last            \* history: the handler that ran last and what it reported

vars == <<library, modules, wires, last>>

(* DesignCanvas.drawing_wire, start_module and start_port are set by the press
   and cleared by the release of one wire gesture; they are None between
   gestures, and are values passed from the press to the release here. *)

-----------------------------------------------------------------------------
(* Bounds of the model *)

MaxModules == 3     \* instances on the canvas
MaxWires == 2       \* length of DesignCanvas.wires
MaxSelected == 2    \* items selected when delete_selected_items runs

(* Constants of the program *)

min_width == 150
port_spacing == 15
y_offset == 30
port_radius == 5
hit_radius == 10

None == 0
Dead == -1
NoPort == <<>>

-----------------------------------------------------------------------------
(* Geometry *)

\* The view centre, where a new instance is put, and the places a drag can move it to.
ViewCenter == <<0, 0>>
Positions == {<<0, 0>>, <<150, 0>>}
Nowhere == <<-1000, -1000>>

Abs(x) == IF x < 0 THEN -x ELSE x

manhattanLength(p, q) == Abs(p[1] - q[1]) + Abs(p[2] - q[2])

mapToScene(item, pos) == <<item.pos[1] + pos[1], item.pos[2] + pos[2]>>

\* ModuleItem.port_positions, in the order paint() fills it: inputs, then outputs.
port_positions(item) ==
    [i \in 1..Len(item.ports.inputs) |->
        <<item.ports.inputs[i], <<0, y_offset + (i - 1) * port_spacing + port_radius>>>>]
    \o
    [i \in 1..Len(item.ports.outputs) |->
        <<item.ports.outputs[i], <<min_width, y_offset + (i - 1) * port_spacing + port_radius>>>>]

\* The first port of the item within the hit radius of a scene position, NoPort if none.
port_at_scene_pos(item, scenePos) ==
    LET pp == port_positions(item)
        hits == {i \in 1..Len(pp) : manhattanLength(mapToScene(item, pp[i][2]), scenePos) < hit_radius}
    IN  IF hits = {} THEN NoPort
        ELSE pp[CHOOSE i \in hits : \A j \in hits : i <= j][1]

-----------------------------------------------------------------------------
(* Sequences *)

Range(s) == {s[i] : i \in 1..Len(s)}

RECURSIVE SelectSeqIdx(_, _)
\* the subsequence of s at the indices in keep, in order
SelectSeqIdx(s, keep) ==
    IF s = <<>> THEN <<>>
    ELSE LET n == Len(s)
             front == SelectSeqIdx(SubSeq(s, 1, n - 1), keep)
         IN  IF n \in keep THEN Append(front, s[n]) ELSE front

\* list.remove(x): s without its first element equal to x
RemoveFirst(s, x) ==
    LET i == CHOOSE i \in 1..Len(s) : s[i] = x /\ \A j \in 1..(i - 1) : s[j] # x
    IN  SubSeq(s, 1, i - 1) \o SubSeq(s, i + 1, Len(s))

-----------------------------------------------------------------------------
(* The files and the typed text the handlers get *)

(* SystemVerilogParser.  A text is a sequence of tokens: words, the
   punctuation marks below, and the text between two brackets as one token.
   White space separates tokens and is not kept; ");" is the token of a
   closing parenthesis directly followed by a semicolon.  A port string
   "name[range]" is the pair <<name, range>>, a plain name <<name, "">>. *)

Directions == {"input", "output", "inout"}
Types == {"wire", "reg", "logic"}
Punctuation == {"(", ")", ");", ",", ";", "[", "]", "#"}

\* the index of the first token from `from` on that is one of marks, Len + 1 when none is
next_index(tokens, from, marks) ==
    IF \E i \in from..Len(tokens) : tokens[i] \in marks
    THEN CHOOSE i \in from..Len(tokens) :
             tokens[i] \in marks /\ \A j \in from..(i - 1) : tokens[j] \notin marks
    ELSE Len(tokens) + 1

RECURSIVE without_dimensions(_)
\* re.sub(r'\[.*?\]', '', port_text)
without_dimensions(tokens) ==
    IF tokens = <<>> THEN <<>>
    ELSE IF Head(tokens) = "[" /\ \E i \in 2..Len(tokens) : tokens[i] = "]"
    THEN without_dimensions(SubSeq(tokens, next_index(tokens, 2, {"]"}) + 1,
                                   Len(tokens)))
    ELSE <<Head(tokens)>> \o without_dimensions(Tail(tokens))

RECURSIVE join_space(_)
\* the words of a text as one string
join_space(words) ==
    IF words = <<>> THEN ""
    ELSE IF Len(words) = 1 THEN words[1]
    ELSE words[1] \o " " \o join_space(Tail(words))

\* SystemVerilogParser.extract_port_name
extract_port_name(port_text) == join_space(without_dimensions(port_text))

RECURSIVE split_loop(_, _, _, _)
\* the loop of split_comma_list over port_list + ','
split_loop(rest, current, bracket_depth, ports) ==
    IF rest = <<>> THEN ports
    ELSE IF Head(rest) = "["
    THEN split_loop(Tail(rest), Append(current, Head(rest)), bracket_depth + 1, ports)
    ELSE IF Head(rest) = "]"
    THEN split_loop(Tail(rest), Append(current, Head(rest)), bracket_depth - 1, ports)
    ELSE IF Head(rest) = "," /\ bracket_depth = 0
    THEN split_loop(Tail(rest), <<>>, bracket_depth,
                    IF current # <<>> /\ extract_port_name(current) # ""
                    THEN Append(ports, extract_port_name(current)) ELSE ports)
    ELSE split_loop(Tail(rest), Append(current, Head(rest)), bracket_depth, ports)

\* SystemVerilogParser.split_comma_list: the names of a comma-separated list
split_comma_list(port_list) == split_loop(Append(port_list, ","), <<>>, 0, <<>>)

RECURSIVE group_end(_, _, _)
\* the scan for the end of a declaration group: the next direction keyword outside brackets
group_end(tokens, end_pos, bracket_depth) ==
    IF end_pos > Len(tokens) THEN end_pos
    ELSE IF tokens[end_pos] = "[" THEN group_end(tokens, end_pos + 1, bracket_depth + 1)
    ELSE IF tokens[end_pos] = "]" THEN group_end(tokens, end_pos + 1, bracket_depth - 1)
    ELSE IF bracket_depth = 0 /\ tokens[end_pos] \in Directions THEN end_pos
    ELSE group_end(tokens, end_pos + 1, bracket_depth)

\* the position after an optional type word at cursor_pos
skip_type(tokens, cursor_pos) ==
    IF cursor_pos <= Len(tokens) /\ tokens[cursor_pos] \in Types THEN cursor_pos + 1 ELSE cursor_pos

\* r'^\s*\[(.*?)\]\s*' at cursor_pos: the range found and the position after it
dimension(tokens, cursor_pos) ==
    IF cursor_pos <= Len(tokens) /\ tokens[cursor_pos] = "["
       /\ \E j \in (cursor_pos + 1)..Len(tokens) : tokens[j] = "]"
    THEN \* the ranges of the model are one token
         LET close == next_index(tokens, cursor_pos + 1, {"]"})
         IN  [width |-> IF close = cursor_pos + 2 THEN tokens[cursor_pos + 1] ELSE "",
              cursor_pos |-> close + 1]
    ELSE [width |-> "", cursor_pos |-> cursor_pos]

\* port_list[:-1] if port_list.endswith(',')
without_trailing_comma(port_list) ==
    IF port_list # <<>> /\ port_list[Len(port_list)] = ","
    THEN SubSeq(port_list, 1, Len(port_list) - 1) ELSE port_list

\* The body of one branch of parse_ansi_port_list, from the position after
\* the direction keyword: the ports of the group and the position it ends at.
direction_group(tokens, after_keyword) ==
    LET dim == dimension(tokens, skip_type(tokens, after_keyword))
        end_pos == group_end(tokens, dim.cursor_pos, 0)
        ports == split_comma_list(without_trailing_comma(
                     SubSeq(tokens, dim.cursor_pos, end_pos - 1)))
    IN  [ports |-> [i \in 1..Len(ports) |-> <<ports[i], dim.width>>], end_pos |-> end_pos]

RECURSIVE ansi_loop(_, _, _)
\* while cursor_pos < len(full_port_list): the first input keyword from the
\* cursor on, else the first output keyword, else the first inout keyword
ansi_loop(tokens, cursor_pos, found) ==
    LET at(keyword) == next_index(tokens, cursor_pos, {keyword})
        group(keyword) == direction_group(tokens, at(keyword) + 1)
    IN  IF cursor_pos > Len(tokens) THEN found
        ELSE IF at("input") <= Len(tokens)
        THEN ansi_loop(tokens, group("input").end_pos,
                       [found EXCEPT !.inputs = @ \o group("input").ports])
        ELSE IF at("output") <= Len(tokens)
        THEN ansi_loop(tokens, group("output").end_pos,
                       [found EXCEPT !.outputs = @ \o group("output").ports])
        ELSE IF at("inout") <= Len(tokens)
        THEN ansi_loop(tokens, group("inout").end_pos,
                       [found EXCEPT !.inouts = @ \o group("inout").ports])
        ELSE found

\* SystemVerilogParser.parse_ansi_port_list
parse_ansi_port_list(port_list_text) ==
    ansi_loop(port_list_text, 1, [inputs |-> <<>>, outputs |-> <<>>, inouts |-> <<>>])

RECURSIVE without_parentheses(_)
\* re.sub(r'\([^()]*\)', '', clean_port_list)
without_parentheses(tokens) ==
    IF tokens = <<>> THEN <<>>
    ELSE LET stop == next_index(tokens, 2, {"(", ")", ");"})
         IN  IF Head(tokens) = "(" /\ stop <= Len(tokens) /\ tokens[stop] = ")"
             THEN without_parentheses(SubSeq(tokens, stop + 1, Len(tokens)))
             ELSE <<Head(tokens)>> \o without_parentheses(Tail(tokens))

\* SystemVerilogParser.parse_port_list
parse_port_list(port_list_text) == split_comma_list(without_parentheses(port_list_text))

RECURSIVE find_blocks(_, _, _)
\* re.findall(r'<keyword>\s+(?:wire|reg|logic)?\s*(?:\[(.*?)\])?\s*([\w\s,]+)\s*;', module_body)
find_blocks(module_body, from, keyword) ==
    LET i == next_index(module_body, from, {keyword})
        dim == dimension(module_body, skip_type(module_body, i + 1))
        stop == next_index(module_body, dim.cursor_pos, Punctuation \ {","})
    IN  IF i > Len(module_body) THEN <<>>
        ELSE IF stop > dim.cursor_pos /\ stop <= Len(module_body) /\ module_body[stop] = ";"
        THEN <<[width |-> dim.width, block |-> SubSeq(module_body, dim.cursor_pos, stop - 1)]>>
             \o find_blocks(module_body, stop + 1, keyword)
        ELSE find_blocks(module_body, i + 1, keyword)

RECURSIVE declare_ports(_, _, _, _)
\* for port in ports: if port in port_names and port not in <list>: append it, with the width
declare_ports(ports, width, port_names, list) ==
    IF ports = <<>> THEN list
    ELSE declare_ports(Tail(ports), width, port_names,
                       IF Head(ports) \in Range(port_names) /\ <<Head(ports), "">> \notin Range(list)
                       THEN Append(list, <<Head(ports), width>>) ELSE list)

RECURSIVE process_blocks(_, _, _)
\* for width, block in <blocks>
process_blocks(blocks, port_names, list) ==
    IF blocks = <<>> THEN list
    ELSE process_blocks(Tail(blocks), port_names,
                        declare_ports(split_comma_list(Head(blocks).block), Head(blocks).width,
                                      port_names, list))

\* SystemVerilogParser.parse_module_body
parse_module_body(module_body, port_names) ==
    [inputs  |-> process_blocks(find_blocks(module_body, 1, "input"), port_names, <<>>),
     outputs |-> process_blocks(find_blocks(module_body, 1, "output"), port_names, <<>>),
     inouts  |-> process_blocks(find_blocks(module_body, 1, "inout"), port_names, <<>>)]

RECURSIVE implicit_inputs(_, _, _, _)
\* for port in all_port_names: if port is in none of the three lists: inputs.append(port)
implicit_inputs(all_port_names, inputs, outputs, inouts) ==
    IF all_port_names = <<>> THEN inputs
    ELSE implicit_inputs(Tail(all_port_names),
                         IF Head(all_port_names) \notin Range(inputs) \cup Range(outputs) \cup Range(inouts)
                         THEN Append(inputs, Head(all_port_names)) ELSE inputs,
                         outputs, inouts)

\* The body of the loop over the module matches: the entry of one module.
module_info(port_list_text, module_body) ==
    LET ansi == parse_ansi_port_list(port_list_text)
        names == parse_port_list(port_list_text)
        plain == [i \in 1..Len(names) |-> <<names[i], "">>]
        body == parse_module_body(module_body, names)
    IN  IF ansi.inputs \o ansi.outputs \o ansi.inouts # <<>>
        THEN [inputs |-> implicit_inputs(ansi.inputs \o ansi.outputs \o ansi.inouts,
                                         ansi.inputs, ansi.outputs, ansi.inouts),
              outputs |-> ansi.outputs \o ansi.inouts]
        ELSE [inputs |-> implicit_inputs(plain, body.inputs, body.outputs, body.inouts),
              outputs |-> body.outputs \o body.inouts]

\* the header of the module pattern at position i of the text:
\* module <name> [# ( ... )] (     (the position of the opening parenthesis, 0 when no match)
header_at(content, i) ==
    IF /\ i + 2 <= Len(content)
       /\ content[i] = "module"
       /\ content[i + 1] \notin Punctuation
    THEN IF content[i + 2] = "("
         THEN i + 2
         ELSE IF /\ content[i + 2] = "#" /\ i + 3 <= Len(content) /\ content[i + 3] = "("
                 /\ \E j \in (i + 4)..(Len(content) - 1) :
                       content[j] = ")" /\ content[j + 1] = "("
                       /\ \A k \in (i + 4)..(j - 1) : content[k] \notin {")", ");"}
         THEN 1 + next_index(content, i + 4, {")"})
         ELSE 0
    ELSE 0

RECURSIVE module_matches(_, _)
\* re.finditer(module_pattern, content): the matches from position i on, as
\* (module_name, port_list_text, module_body)
module_matches(content, i) ==
    LET open == header_at(content, i)
        close == next_index(content, open + 1, {");"})
        end == next_index(content, close + 1, {"endmodule"})
    IN  IF i > Len(content) THEN <<>>
        ELSE IF open # 0 /\ end <= Len(content)
        THEN <<[module_name |-> content[i + 1],
                port_list_text |-> SubSeq(content, open + 1, close - 1),
                module_body |-> SubSeq(content, close + 1, end - 1)]>>
             \o module_matches(content, end + 1)
        ELSE module_matches(content, i + 1)

\* the tokens of a module name between its underscores
identifier(word) ==
    IF word = "mux_1" THEN <<"mux", "1">>
    ELSE IF word = "a_b" THEN <<"a", "b">>
    ELSE <<word>>

\* parse_file from the text of the file on: the dict of the modules found
parse_content(content) ==
    LET matches == module_matches(content, 1)
        lastOf(name) == CHOOSE i \in 1..Len(matches) :
                           /\ identifier(matches[i].module_name) = name
                           /\ \A j \in (i + 1)..Len(matches) :
                                 identifier(matches[j].module_name) # name
    IN  [name \in {identifier(matches[i].module_name) : i \in 1..Len(matches)} |->
            module_info(matches[lastOf(name)].port_list_text, matches[lastOf(name)].module_body)]

\* The two files of the model:
\*   inv.sv    module inv (input a, output y); endmodule
\*   lib.sv    module mux (input [3:0] a, output [3:0] y); endmodule
\*             module mux_1 (input d, output q); endmodule
\*   names.sv  module a (input x, output b_c); endmodule
\*             module a_b (input x, output c); endmodule
InvSv == <<"module", "inv", "(", "input", "a", ",", "output", "y", ");", "endmodule">>
LibSv == <<"module", "mux", "(", "input", "[", "3:0", "]", "a", ",",
           "output", "[", "3:0", "]", "y", ");", "endmodule",
           "module", "mux_1", "(", "input", "d", ",", "output", "q", ");", "endmodule">>

NamesSv == <<"module", "a", "(", "input", "x", ",", "output", "b_c", ");", "endmodule",
             "module", "a_b", "(", "input", "x", ",", "output", "c", ");", "endmodule">>

\* f.read(), comments removed
read(filename) ==
    IF filename = "inv.sv" THEN InvSv
    ELSE IF filename = "names.sv" THEN NamesSv
    ELSE LibSv

\* SystemVerilogParser.parse_file
parse_file(filename) == parse_content(read(filename))

\* What the user types in the dialogs of add_module_manually: a module name,
\* and the port lists asked for when the library lacks the name.
\* [p.strip() for p in text.split(",") if p.strip()] of "a" is the list of one port.
TypedInv == [module_name |-> <<"inv">>,
             inputs |-> << <<"a", "">> >>, outputs |-> << <<"y", "">> >>]
TypedMux1 == [module_name |-> <<"mux", "1">>,
              inputs |-> << <<"d", "">> >>, outputs |-> << <<"q", "">> >>]

-----------------------------------------------------------------------------
(* ModuleItem *)

PortName(port) == port[1]
PortWidth(port) == port[2]

\* The port string without its width notation.
clean_port(port) == <<PortName(port), "">>

\* ModuleItem.parse_port_widths: the ports dict it leaves (clean names) and port_widths.
parse_port_widths(ports) ==
    LET all == ports.inputs \o ports.outputs
        names == {PortName(all[i]) : i \in 1..Len(all)}
        lastOf(n) == CHOOSE i \in 1..Len(all) :
                        /\ PortName(all[i]) = n
                        /\ \A j \in (i + 1)..Len(all) : PortName(all[j]) # n
    IN  [ports |-> [inputs |-> [i \in 1..Len(ports.inputs) |-> clean_port(ports.inputs[i])],
                    outputs |-> [i \in 1..Len(ports.outputs) |-> clean_port(ports.outputs[i])]],
         port_widths |-> [n \in names |-> PortWidth(all[lastOf(n)])]]

\* variant: the item is given the type name instead of the instance name
ModuleItem_named_by_type(id, name, ports, type) ==
    [id |-> id, name |-> type, ports |-> parse_port_widths(ports).ports,
     port_widths |-> parse_port_widths(ports).port_widths, pos |-> ViewCenter, type |-> type]

\* ModuleItem.__init__
ModuleItem(id, name, ports, type) ==
    LET parsed == parse_port_widths(ports)
    IN  [id |-> id, name |-> name, ports |-> parsed.ports,
         port_widths |-> parsed.port_widths, pos |-> ViewCenter, type |-> type]

\* WireItem.__init__
WireItem(sm, em, sp, ep) ==
    [start_module |-> sm, end_module |-> em, start_port |-> sp, end_port |-> ep]

-----------------------------------------------------------------------------
(* DesignCanvas.modules as a dict *)

Keys == {modules[i].key : i \in 1..Len(modules)}
ItemIds == {modules[i].item.id : i \in 1..Len(modules)}
ItemOf(id) == modules[CHOOSE i \in 1..Len(modules) : modules[i].item.id = id].item

\* the id of a new object: one that no item of the canvas holds
FreshId == Len(modules) + 1

\* The canonical renaming of the ids in a canvas state (modules, wires).
canonical(ms, ws) ==
    LET index(id) == IF \E i \in 1..Len(ms) : ms[i].item.id = id
                     THEN CHOOSE i \in 1..Len(ms) : ms[i].item.id = id
                     ELSE Dead
    IN  [modules |-> [i \in 1..Len(ms) |-> [ms[i] EXCEPT !.item.id = i]],
         wires   |-> [i \in 1..Len(ws) |-> [ws[i] EXCEPT !.start_module = index(@),
                                                          !.end_module = index(@)]]]

-----------------------------------------------------------------------------
(* Instance names *)

\* str(count), for the counts a canvas of this size can reach
str(count) == ToString(count)

\* f"{module_name}_{count}"
numbered_name(module_name, count) == module_name \o <<str(count)>>

RECURSIVE unique_name_loop(_, _, _, _)
\* while instance_name in self.canvas.modules: instance_name = f"{module_name}_{count}"; count += 1
unique_name_loop(module_name, instance_name, count, keys) ==
    IF instance_name \in keys
    THEN unique_name_loop(module_name, numbered_name(module_name, count), count + 1, keys)
    ELSE instance_name

\* variant: the numbering starts at the number of instances on the canvas
name_from_instance_count(module_name, keys) ==
    unique_name_loop(module_name, module_name, Cardinality(keys), keys)

\* the instance name a placement of type module_name gets
unique_instance_name(module_name, keys) == unique_name_loop(module_name, module_name, 1, keys)

\* self.canvas.modules[instance_name] = module
dict_set(dict, key, item) ==
    IF \E i \in 1..Len(dict) : dict[i].key = key
    THEN [i \in 1..Len(dict) |-> IF dict[i].key = key THEN [key |-> key, item |-> item] ELSE dict[i]]
    ELSE Append(dict, [key |-> key, item |-> item])

\* del self.modules[key]
dict_del(dict, key) == SelectSeq(dict, LAMBDA e : e.key # key)

-----------------------------------------------------------------------------
(* History: the handler that ran last, the number of selected items it got
   (n), the number of wires it added or removed (k), the warnings a gesture
   showed, whether the release position lay on a port of the pressed item
   (self_hit), whether the gesture swapped its ends (swapped), whether
   the handler raised, what a generation did: whether it asked for the
   output file, the text it made and whether it wrote the file, and the
   text of the file the user has at hand to load (source). *)

NoOp == [op |-> "init", n |-> 0, k |-> 0, warnings |-> {}, self_hit |-> FALSE,
         swapped |-> FALSE, raised |-> FALSE, asked |-> FALSE, text |-> <<>>,
         written |-> FALSE, source |-> <<>>]

Ran(op) == [NoOp EXCEPT !.op = op]

-----------------------------------------------------------------------------
(* Initial state: SystemVerilogDesigner.__init__, DesignCanvas.__init__ *)

Init ==
    /\ library = <<>>
    /\ modules = <<>>
    /\ wires = <<>>
    /\ last = NoOp

-----------------------------------------------------------------------------
(* Library handlers *)

\* ModuleLibraryWidget.add_module_definition
add_module_definition(lib, name, inputs, outputs) ==
    [n \in DOMAIN lib \cup {name} |->
        IF n = name THEN [inputs |-> inputs, outputs |-> outputs] ELSE lib[n]]

RECURSIVE add_module_definitions(_, _, _)
\* for name, ports in modules.items(): self.add_module_definition(...)
add_module_definitions(lib, parsed, names) ==
    IF names = {} THEN lib
    ELSE LET name == CHOOSE n \in names : TRUE
         IN  add_module_definitions(
                 add_module_definition(lib, name, parsed[name].inputs, parsed[name].outputs),
                 parsed, names \ {name})

\* ModuleLibraryWidget.load_module_file
load_module_file(lib, filename) ==
    add_module_definitions(lib, parse_file(filename), DOMAIN parse_file(filename))

\* SystemVerilogDesigner.load_module, one file chosen. A load that leaves every
\* definition as it is changes no state of the model and is left out.
load_module(filename) ==
    /\ \E lib \in {load_module_file(library, filename)} :
           lib # library /\ library' = lib
    /\ last' = Ran("load_module")
    /\ UNCHANGED <<modules, wires>>

-----------------------------------------------------------------------------
(* Placement *)

\* The ports dict handed to ModuleItem is the library's own dict, and
\* parse_port_widths assigns the clean lists into it.
library_after_placement(lib, module_name) ==
    [lib EXCEPT ![module_name] = parse_port_widths(lib[module_name]).ports]

\* SystemVerilogDesigner.add_module_to_canvas, and the same lines of add_module_from_library
add_module_to_canvas(dict, module_name, ports) ==
    LET instance_name == unique_instance_name(module_name, {dict[i].key : i \in 1..Len(dict)})
    IN  dict_set(dict, instance_name, ModuleItem(FreshId, instance_name, ports, module_name))

\* SystemVerilogDesigner.add_module_from_library: a double click on a library entry
add_module_from_library(module_name) ==
    /\ Len(modules) < MaxModules
    /\ module_name \in DOMAIN library
    /\ \E c \in {canonical(add_module_to_canvas(modules, module_name, library[module_name]), wires)} :
           modules' = c.modules /\ wires' = c.wires
    /\ library' = library_after_placement(library, module_name)
    /\ last' = Ran("add_module_from_library")

\* SystemVerilogDesigner.add_module_manually, the dialogs accepted
add_module_manually(typed) ==
    /\ Len(modules) < MaxModules
    /\ IF typed.module_name \in DOMAIN library
       THEN /\ \E c \in {canonical(add_module_to_canvas(modules, typed.module_name,
                                                        library[typed.module_name]), wires)} :
                   modules' = c.modules /\ wires' = c.wires
            /\ library' = library_after_placement(library, typed.module_name)
       ELSE \* the typed lists go to the library; the item gets a dict of its own
            /\ \E c \in {canonical(add_module_to_canvas(modules, typed.module_name,
                             [inputs |-> typed.inputs, outputs |-> typed.outputs]), wires)} :
                   modules' = c.modules /\ wires' = c.wires
            /\ library' = add_module_definition(library, typed.module_name,
                                                typed.inputs, typed.outputs)
    /\ last' = Ran("add_module_manually")

\* ModuleItem.mouseMoveEvent: the item is dragged (ItemIsMovable) to another place
move_module(id, pos) ==
    /\ id \in ItemIds
    /\ ItemOf(id).pos # pos
    /\ modules' = [i \in 1..Len(modules) |->
                      IF modules[i].item.id = id
                      THEN [modules[i] EXCEPT !.item.pos = pos] ELSE modules[i]]
    /\ last' = Ran("move_module")
    /\ UNCHANGED <<library, wires>>

-----------------------------------------------------------------------------
(* The wire gesture *)

\* the texts of the two warnings of mouseReleaseEvent
AlreadyConnected == "Input port already connected! Each input can only connect to one output."
InvalidConnection == "Invalid connection! Connect output to input."

\* every scene position a port of an instance on the canvas is drawn at
PortScenePositions ==
    UNION {{mapToScene(modules[m].item, port_positions(modules[m].item)[i][2]) :
                i \in 1..Len(port_positions(modules[m].item))} : m \in 1..Len(modules)}

\* the ids of the items with a port within the hit radius of a scene position
ItemsAt(scenePos) ==
    {modules[m].item.id : m \in {i \in 1..Len(modules) :
                                    port_at_scene_pos(modules[i].item, scenePos) # NoPort}}

\* DesignCanvas.mousePressEvent, left button: the first module, in dict order, with
\* a port there starts the wire. The values of drawing_wire, start_module, start_port.
mousePressEvent(scenePos) ==
    LET hits == {i \in 1..Len(modules) : port_at_scene_pos(modules[i].item, scenePos) # NoPort}
    IN  IF hits = {}
        THEN [drawing_wire |-> FALSE, start_module |-> None, start_port |-> NoPort]
        ELSE LET module == modules[CHOOSE i \in hits : \A j \in hits : i <= j].item
             IN  [drawing_wire |-> TRUE, start_module |-> module.id,
                  start_port |-> port_at_scene_pos(module, scenePos)]

\* variant: the pressed module is looked at like the others
skip_nothing(module, sm) == FALSE

\* if module == self.start_module: continue
skip_module(module, sm) == module.id = sm.id

\* self.start_port in self.start_module.ports["outputs"] and port in module.ports["inputs"]
output_to_input(sm, sp, module, port) ==
    sp \in Range(sm.ports.outputs) /\ port \in Range(module.ports.inputs)

\* self.start_port in self.start_module.ports["inputs"] and port in module.ports["outputs"]
input_to_output(sm, sp, module, port) ==
    sp \in Range(sm.ports.inputs) /\ port \in Range(module.ports.outputs)

\* variant: the search compares the start of each wire instead of its end
connected_as_start(ws, module, port) ==
    /\ port \in Range(module.ports.inputs)
    /\ \E i \in 1..Len(ws) : ws[i].start_module = module.id /\ ws[i].start_port = port

\* the search for a wire that already ends at the input port
input_already_connected(ws, module, port) ==
    /\ port \in Range(module.ports.inputs)
    /\ \E i \in 1..Len(ws) : ws[i].end_module = module.id /\ ws[i].end_port = port

\* variant: the wire is made without the check of the input port
connect_unchecked(st, module, port) ==
    [st EXCEPT !.ws = Append(@, WireItem(st.sm.id, module.id, st.sp, port))]

\* variant: an output that starts a wire takes no second one
connect_one_wire_per_output(st, module, port) ==
    IF \/ input_already_connected(st.ws, module, port)
       \/ \E i \in 1..Len(st.ws) : st.ws[i].start_module = st.sm.id /\ st.ws[i].start_port = st.sp
    THEN [st EXCEPT !.warnings = @ \cup {AlreadyConnected}]
    ELSE [st EXCEPT !.ws = Append(@, WireItem(st.sm.id, module.id, st.sp, port))]

\* if valid_connection: the check of the input port, then the new wire from
\* (self.start_module, self.start_port) to (module, port)
connect(st, module, port) ==
    IF input_already_connected(st.ws, module, port)
    THEN [st EXCEPT !.warnings = @ \cup {AlreadyConnected}]
    ELSE [st EXCEPT !.ws = Append(@, WireItem(st.sm.id, module.id, st.sp, port))]

\* variant: every port hit is connected, whatever the directions
release_without_direction_check(st, module, port) ==
    IF input_already_connected(st.ws, module, port)
    THEN [st EXCEPT !.warnings = @ \cup {AlreadyConnected}]
    ELSE [st EXCEPT !.ws = Append(@, WireItem(st.sm.id, module.id, st.sp, port))]

\* The body of the inner loop for the port hit in one module: the state
\* (self.start_module, self.start_port, valid_connection, self.wires) it leaves
\* and the warnings shown. valid_connection is set before the loops and never
\* cleared in them; the swap assigns to self.start_module and self.start_port.
release_on_port(st, module, port) ==
    IF output_to_input(st.sm, st.sp, module, port)
    THEN connect([st EXCEPT !.valid = TRUE], module, port)
    ELSE IF input_to_output(st.sm, st.sp, module, port)
    THEN connect([st EXCEPT !.valid = TRUE, !.sm = module, !.sp = port, !.swapped = TRUE],
                 st.sm, st.sp)
    ELSE IF st.valid
    THEN connect(st, module, port)
    ELSE [st EXCEPT !.warnings = @ \cup {InvalidConnection}]

RECURSIVE release_loop(_, _, _)
\* for module in self.modules.values(): from the i-th module on. The break leaves
\* the inner loop only, so the modules after a hit are looked at as well.
release_loop(i, scenePos, st) ==
    IF i > Len(modules) THEN st
    ELSE LET module == modules[i].item
             port == port_at_scene_pos(module, scenePos)
         IN  IF skip_module(module, st.sm) \/ port = NoPort
             THEN release_loop(i + 1, scenePos, st)
             ELSE release_loop(i + 1, scenePos, release_on_port(st, module, port))

\* DesignCanvas.mouseReleaseEvent, left button: self.wires as it leaves it, the
\* warnings shown, and whether it swapped the ends
mouseReleaseEvent(press, scenePos) ==
    IF ~press.drawing_wire
    THEN [ws |-> wires, warnings |-> {}, swapped |-> FALSE]
    ELSE LET st == release_loop(1, scenePos,
                       [sm |-> ItemOf(press.start_module), sp |-> press.start_port,
                        valid |-> FALSE, ws |-> wires, warnings |-> {}, swapped |-> FALSE])
         IN  [ws |-> st.ws, warnings |-> st.warnings, swapped |-> st.swapped]

\* One wire gesture: the button goes down on a port at pressPos and up at
\* releasePos; no other handler runs while the button is held.
wire_gesture(pressPos, releasePos) ==
    \E press \in {mousePressEvent(pressPos)} :
      /\ press.drawing_wire
      /\ \E released \in {mouseReleaseEvent(press, releasePos)} :
        /\ Len(released.ws) <= MaxWires
        /\ wires' = released.ws
        /\ last' = [Ran("wire_gesture") EXCEPT
                        !.k = Len(released.ws) - Len(wires),
                        !.warnings = released.warnings,
                        !.swapped = released.swapped,
                        !.self_hit = press.start_module \in ItemsAt(releasePos)]
        /\ UNCHANGED <<library, modules>>

-----------------------------------------------------------------------------
(* Deletion *)

\* QGraphicsScene.selectedItems: the items flagged ItemIsSelectable are the
\* ModuleItems; the selection is a list of distinct items in any order.
Selectable == {[kind |-> "module", item |-> modules[i].item] : i \in 1..Len(modules)}

Selections ==
    {<<a>> : a \in Selectable} \cup
    (IF MaxSelected < 2 THEN {} ELSE {sel \in Selectable \X Selectable : sel[1] # sel[2]}) \cup
    (IF MaxSelected < 3 THEN {}
     ELSE {sel \in Selectable \X Selectable \X Selectable :
              sel[1] # sel[2] /\ sel[1] # sel[3] /\ sel[2] # sel[3]})

\* variant: only the wires that start at the module are taken
wires_starting_at(ws, item) ==
    {i \in 1..Len(ws) : ws[i].start_module = item.id}

\* the wires the deletion of a module takes with it
wires_to_remove(ws, item) ==
    {i \in 1..Len(ws) : ws[i].start_module = item.id \/ ws[i].end_module = item.id}

\* variant: the deletion of a module empties the list of wires
delete_module_item_and_all_wires(st, item) ==
    [st EXCEPT !.wires = <<>>, !.modules = dict_del(st.modules, item.name)]

\* the branch for a ModuleItem
delete_module_item(st, item) ==
    [st EXCEPT !.wires = SelectSeqIdx(st.wires, (1..Len(st.wires)) \ wires_to_remove(st.wires, item)),
               !.modules = dict_del(st.modules, item.name)]

\* the branch for a WireItem: list.remove raises ValueError when the wire is gone
delete_wire_item(st, wire) ==
    IF wire \in Range(st.wires)
    THEN [st EXCEPT !.wires = RemoveFirst(st.wires, wire)]
    ELSE [st EXCEPT !.raised = TRUE]

RECURSIVE delete_loop(_, _, _)
\* for item in selected_items: from the i-th item on; an exception ends the handler
delete_loop(i, sel, st) ==
    IF i > Len(sel) \/ st.raised THEN st
    ELSE delete_loop(i + 1, sel,
                     IF sel[i].kind = "module"
                     THEN delete_module_item(st, sel[i].item)
                     ELSE delete_wire_item(st, sel[i].item))

\* DesignCanvas.delete_selected_items
delete_selected_items(sel) ==
    \E st \in {delete_loop(1, sel, [modules |-> modules, wires |-> wires, raised |-> FALSE])} :
      \E c \in {canonical(st.modules, st.wires)} : 
        /\ modules' = c.modules
        /\ wires' = c.wires
        /\ last' = [Ran("delete_selected_items") EXCEPT
                        !.n = Len(sel), !.k = Len(wires) - Len(st.wires), !.raised = st.raised]
        /\ UNCHANGED library

\* SystemVerilogDesigner.new_design, answered Yes
new_design ==
    /\ modules' = <<>>
    /\ wires' = <<>>
    /\ last' = Ran("new_design")
    /\ UNCHANGED library

-----------------------------------------------------------------------------
(* SystemVerilogDesigner.generate_systemverilog.  A text is a sequence of
   lines and a line a sequence of pieces of text; an identifier is written
   token by token with "_" between the tokens.  The port names of the model
   hold no underscore, so a port name is one token. *)

\* the way an identifier given by its tokens is written
chars(id) == [i \in 1..(2 * Len(id) - 1) |-> IF i % 2 = 1 THEN id[(i + 1) \div 2] ELSE "_"]

RECURSIVE Flatten(_)
Flatten(seqs) == IF seqs = <<>> THEN <<>> ELSE Head(seqs) \o Flatten(Tail(seqs))

\* ",\n".join(lines)
join_comma(lines) ==
    [i \in 1..Len(lines) |-> IF i < Len(lines) THEN Append(lines[i], ",") ELSE lines[i]]

\* str.isdigit for one token of a name
isdigit(token) == token \in {ToString(n) : n \in 0..MaxModules}

\* DesignCanvas.get_module_type: the instance name without a last token of digits
get_module_type(module_name) ==
    IF Len(module_name) > 1 /\ isdigit(module_name[Len(module_name)])
    THEN SubSeq(module_name, 1, Len(module_name) - 1)
    ELSE module_name

\* f"{module.name}_{port}"
qualname(module, port) == Append(module.name, PortName(port))

\* f"[{module.port_widths[port]}]" if module.port_widths.get(port, "") else ""
width_text(module, port) ==
    IF PortName(port) \in DOMAIN module.port_widths /\ module.port_widths[PortName(port)] # ""
    THEN <<"[", module.port_widths[PortName(port)], "]">>
    ELSE <<>>

\* variant: a port is connected when any wire touches its instance
touched_by_wire(module, port) ==
    \E i \in 1..Len(wires) : wires[i].end_module = module.id \/ wires[i].start_module = module.id

\* has_connection of the inputs loop: a wire ends at the port
has_connection_in(module, port) ==
    \E i \in 1..Len(wires) : wires[i].end_module = module.id /\ wires[i].end_port = port

\* has_connection of the outputs loop: a wire starts at the port
has_connection_out(module, port) ==
    \E i \in 1..Len(wires) : wires[i].start_module = module.id /\ wires[i].start_port = port

\* the ports of a list that take part in the interface of the top module, as (name, width)
external_of(module, ports, outputs) ==
    LET free == SelectSeq(ports, LAMBDA port : IF outputs THEN ~has_connection_out(module, port)
                                               ELSE ~has_connection_in(module, port))
    IN  [i \in 1..Len(free) |-> [name |-> qualname(module, free[i]),
                                 width |-> width_text(module, free[i])]]

external_inputs ==
    Flatten([m \in 1..Len(modules) |->
                external_of(modules[m].item, modules[m].item.ports.inputs, FALSE)])

external_outputs ==
    Flatten([m \in 1..Len(modules) |->
                external_of(modules[m].item, modules[m].item.ports.outputs, TRUE)])

\* f"  input wire {width}{port}", f"  output wire {width}{port}"
port_line(direction, ext) == <<"  ", direction, " wire ">> \o ext.width \o chars(ext.name)

port_declarations ==
    LET ports == [i \in 1..Len(external_inputs) |-> port_line("input", external_inputs[i])]
                 \o [i \in 1..Len(external_outputs) |-> port_line("output", external_outputs[i])]
    IN  IF ports # <<>> THEN join_comma(ports) ELSE << <<"  // No external connections">> >>

\* variant: the wire is named after its start alone
wire_name_of_start(wire) ==
    <<"w">> \o qualname(ItemOf(wire.start_module), wire.start_port)

\* f"w_{start_qualname}_to_{end_qualname}"
wire_name(wire) ==
    <<"w">> \o qualname(ItemOf(wire.start_module), wire.start_port)
        \o <<"to">> \o qualname(ItemOf(wire.end_module), wire.end_port)

\* f"  wire {width}{wire_name};"
wire_line(wire) ==
    <<"  wire ">> \o width_text(ItemOf(wire.start_module), wire.start_port)
        \o chars(wire_name(wire)) \o <<";">>

wire_declarations ==
    [i \in 1..Len(wires) |-> wire_line(wires[i])] \o (IF wires # <<>> THEN << <<>> >> ELSE <<>>)

\* the first wire of the list that ends (start = FALSE) or starts (start = TRUE) at the port
first_wire(module, port, start) ==
    LET at(i) == IF start
                 THEN wires[i].start_module = module.id /\ wires[i].start_port = port
                 ELSE wires[i].end_module = module.id /\ wires[i].end_port = port
        found == {i \in 1..Len(wires) : at(i)}
    IN  IF found = {} THEN None ELSE CHOOSE i \in found : \A j \in found : i <= j

\* f"    .{port}({wire_name})" or f"    .{port}({external_name})"
connection(module, port) ==
    LET w == IF port \in Range(module.ports.inputs) THEN first_wire(module, port, FALSE)
             ELSE IF port \in Range(module.ports.outputs) THEN first_wire(module, port, TRUE)
             ELSE None
    IN  <<"    .", PortName(port), "(">>
            \o chars(IF w # None THEN wire_name(wires[w]) ELSE qualname(module, port))
            \o <<")">>

\* the block of one entry of self.canvas.modules
instantiation(module_name, module) ==
    LET ports == module.ports.inputs \o module.ports.outputs
        connections == [i \in 1..Len(ports) |-> connection(module, ports[i])]
    IN  << <<"  ">> \o chars(get_module_type(module_name)) \o <<" ">> \o chars(module_name) \o <<" (">> >>
        \o (IF connections # <<>> THEN join_comma(connections) ELSE << <<"    // No connections">> >>)
        \o << <<"  );">>, <<>> >>

\* variant: the blocks are written from the last entry of the dict to the first
instantiations_reversed ==
    Flatten([m \in 1..Len(modules) |->
                instantiation(modules[Len(modules) + 1 - m].key, modules[Len(modules) + 1 - m].item)])

instantiations ==
    Flatten([m \in 1..Len(modules) |-> instantiation(modules[m].key, modules[m].item)])

\* os.path.basename of a file name given as (directory, base name)
basename(filename) == filename[2]

header(filename, top_name, timestamp) ==
    << <<"//=============================================================================">>,
       <<"// File: ", basename(filename)>>,
       <<"// Date: ", timestamp>>,
       <<"// Description: Top level SystemVerilog module '">> \o chars(top_name)
           \o <<"' generated by SystemVerilog Designer">>,
       <<"// Contains the following module instances:">> >>
    \o [m \in 1..Len(modules) |-> <<"//   - ">> \o chars(modules[m].key)]
    \o << <<"//=============================================================================">>,
          <<>> >>

\* sv_code as it is written to the file
sv_code(filename, top_name, timestamp) ==
    header(filename, top_name, timestamp)
    \o << <<"module ">> \o chars(top_name) \o <<" (">> >>
    \o port_declarations
    \o << <<");">> >>
    \o wire_declarations
    \o instantiations
    \o << <<"endmodule">> >>

\* the answers of the dialogs: no file name when the file dialog is cancelled,
\* no top name when the name dialog is cancelled or left empty
NoFilename == <<"", "">>
Filenames == {NoFilename, <<"/home/u", "design.sv">>}
TopNames == {<<>>, <<"soc">>}
Timestamps == {"2024-01-01 10:00:00", "2024-01-01 10:00:01"}

\* the outcome of a run: the warning shown, whether the file dialog was
\* shown (asked), the text, and whether a file was written
Generated(warnings, asked, text, written) ==
    [warnings |-> warnings, asked |-> asked, text |-> text, written |-> written]

EmptyDesign == "There are no modules to generate code from"

\* variant: an empty canvas is not refused
generate_without_refusal(filename, top_name, timestamp) ==
    IF filename = NoFilename THEN Generated({}, TRUE, <<>>, FALSE)
    ELSE Generated({}, TRUE,
                   sv_code(filename, IF top_name = <<>> THEN <<"top">> ELSE top_name, timestamp),
                   TRUE)

\* generate_systemverilog, the file being writable
generate_systemverilog(filename, top_name, timestamp) ==
    IF modules = <<>> THEN Generated({EmptyDesign}, FALSE, <<>>, FALSE)
    ELSE IF filename = NoFilename THEN Generated({}, TRUE, <<>>, FALSE)
    ELSE Generated({}, TRUE,
                   sv_code(filename, IF top_name = <<>> THEN <<"top">> ELSE top_name, timestamp),
                   TRUE)

\* the menu entry Generate SystemVerilog, with the answers given to its dialogs
generate(filename, top_name, timestamp) ==
    /\ \E out \in {generate_systemverilog(filename, top_name, timestamp)} :
          last' = [Ran("generate_systemverilog") EXCEPT !.warnings = out.warnings,
                                                        !.asked = out.asked,
                                                        !.text = out.text,
                                                        !.written = out.written]
    /\ UNCHANGED <<library, modules, wires>>

-----------------------------------------------------------------------------

(* The design canvas: the file inv.sv, one module type, instances dragged
   between two places, wires drawn and instances deleted. *)
Next ==
    \/ load_module("inv.sv")
    \/ \E module_name \in DOMAIN library : add_module_from_library(module_name)
    \/ add_module_manually(TypedInv)
    \/ \E id \in ItemIds, pos \in Positions : move_module(id, pos)
    \/ \E pressPos \in PortScenePositions, releasePos \in PortScenePositions \cup {Nowhere} :
          wire_gesture(pressPos, releasePos)
    \/ \E sel \in Selections : delete_selected_items(sel)
    \/ new_design

Spec == Init /\ [][Next]_vars

(* Placement and deletion with the file lib.sv, whose second type has the
   name of the first followed by _1; no wire is drawn. *)
NextNames ==
    \/ load_module("lib.sv")
    \/ \E module_name \in DOMAIN library : add_module_from_library(module_name)
    \/ add_module_manually(TypedMux1)
    \/ \E sel \in Selections : delete_selected_items(sel)
    \/ new_design

SpecNames == Init /\ [][NextNames]_vars

(* Generation with the file lib.sv: instances of the two types are placed
   at the centre of the view, wires are drawn between their ports, and the
   text of the design is generated; no instance is deleted. *)
NextGen ==
    \/ load_module("lib.sv")
    \/ \E module_name \in DOMAIN library : add_module_from_library(module_name)
    \/ \E pressPos \in PortScenePositions, releasePos \in PortScenePositions \cup {Nowhere} :
          wire_gesture(pressPos, releasePos)
    \/ new_design
    \/ \E filename \in Filenames, top_name \in TopNames, timestamp \in Timestamps :
          generate(filename, top_name, timestamp)

SpecGen == Init /\ [][NextGen]_vars

(* Generation with the file inv.sv on a canvas that is edited: instances of
   the one type are placed at the centre of the view, wired, deleted and
   placed again, and the text of the design is generated. *)
NextEdit ==
    \/ load_module("inv.sv")
    \/ \E module_name \in DOMAIN library : add_module_from_library(module_name)
    \/ \E pressPos \in PortScenePositions, releasePos \in PortScenePositions \cup {Nowhere} :
          wire_gesture(pressPos, releasePos)
    \/ \E sel \in Selections : delete_selected_items(sel)
    \/ new_design
    \/ \E filename \in Filenames, top_name \in TopNames, timestamp \in Timestamps :
          generate(filename, top_name, timestamp)

SpecEdit == Init /\ [][NextEdit]_vars

(* Generation with the file names.sv, whose module and port names hold
   underscores: instances of the two types are placed, wired, and the text
   of the design is generated. *)
NextUnderscores ==
    \/ load_module("names.sv")
    \/ \E module_name \in DOMAIN library : add_module_from_library(module_name)
    \/ \E pressPos \in PortScenePositions, releasePos \in PortScenePositions \cup {Nowhere} :
          wire_gesture(pressPos, releasePos)
    \/ new_design
    \/ \E filename \in Filenames, top_name \in TopNames, timestamp \in Timestamps :
          generate(filename, top_name, timestamp)

SpecUnderscores == Init /\ [][NextUnderscores]_vars

-----------------------------------------------------------------------------
(* Module files written by the user: one module m with up to MaxPorts
   ports named a, b, c, d in this order, each named once.  In the inline style
   a port follows a direction keyword of its own, or a comma of the group
   before it; a keyword may carry the type wire and a range.  In the separate
   style the port list holds the names and the body declares each port by a
   statement of its own, or not at all. *)

MaxPorts == 3
PortNames == <<"a", "b", "c", "d">>
Ranges == {"", "3:0"}

range_tokens(range) == IF range = "" THEN <<>> ELSE <<"[", range, "]">>

\* the tokens of port k of an inline list
inline_port(k, keyword, type, range) ==
    (IF k > 1 THEN <<",">> ELSE <<>>)
    \o (IF keyword = "" THEN <<>>
        ELSE <<keyword>> \o (IF type = "" THEN <<>> ELSE <<type>>) \o range_tokens(range))
    \o <<PortNames[k]>>

InlineLists ==
    UNION {{Flatten([k \in 1..n |-> inline_port(k, keywords[k], type, ranges[k])]) :
                keywords \in {f \in [1..n -> Directions \cup {""}] : f[1] # ""},
                ranges \in [1..n -> Ranges],
                type \in {"", "wire"}} :
           n \in 1..MaxPorts}

\* the port list and the body of a module in the separate style
name_list(n) == Flatten([k \in 1..n |-> (IF k > 1 THEN <<",">> ELSE <<>>) \o <<PortNames[k]>>])
statement(k, keyword, range) ==
    IF keyword = "" THEN <<>> ELSE <<keyword>> \o range_tokens(range) \o <<PortNames[k], ";">>

module_text(port_list_text, module_body) ==
    <<"module", "m", "(">> \o port_list_text \o <<");">> \o module_body \o <<"endmodule">>

Sources ==
    {module_text(list, <<>>) : list \in InlineLists}
    \cup UNION {{module_text(name_list(n),
                             Flatten([k \in 1..n |-> statement(k, keywords[k], ranges[k])])) :
                    keywords \in [1..n -> Directions \cup {""}],
                    ranges \in [1..n -> Ranges]} :
                n \in 1..(MaxPorts - 1)}

InitParse ==
    /\ library = <<>>
    /\ modules = <<>>
    /\ wires = <<>>
    /\ last \in {[NoOp EXCEPT !.source = source] : source \in Sources}

\* SystemVerilogDesigner.load_module, the file at hand chosen
load_source ==
    /\ last.source # <<>>
    /\ library' = add_module_definitions(library, parse_content(last.source),
                                         DOMAIN parse_content(last.source))
    /\ last' = [Ran("load_module") EXCEPT !.source = last.source]
    /\ library' # library
    /\ UNCHANGED <<modules, wires>>

(* A file is written, loaded, and its module placed. *)
NextParse ==
    \/ load_source
    \/ \E module_name \in DOMAIN library : add_module_from_library(module_name)

SpecParse == InitParse /\ [][NextParse]_vars

(* Module files that hold a module the module pattern does not match,
   before or after a well-formed module m: a module without a port list in
   parentheses, and a module with white space between ")" and ";". *)

MalformedModules ==
    {<<"module", "bad", ";", "wire", "w", ";", "endmodule">>,
     <<"module", "bad", "(", "input", "x", ")", ";", "endmodule">>}

TwoModuleSources ==
    UNION {{malformed \o module_text(list, <<>>), module_text(list, <<>>) \o malformed} :
              malformed \in MalformedModules,
              list \in {l \in InlineLists : "c" \notin Range(l)}}

(* Module files with one inline group whose names may carry a range of
   their own after the name, as in "input a[7:0], b, c[WIDTH-1:0]". *)

OwnRanges == {"", "7:0", "WIDTH-1:0"}

\* the tokens of name k of the group
ranged_name(k, range) ==
    (IF k > 1 THEN <<",">> ELSE <<>>) \o <<PortNames[k]>> \o range_tokens(range)

OwnRangeSources ==
    UNION {{module_text(<<keyword>> \o range_tokens(default)
                        \o Flatten([k \in 1..n |-> ranged_name(k, own[k])]), <<>>) :
                keyword \in Directions, default \in Ranges, own \in [1..n -> OwnRanges]} :
           n \in 1..MaxPorts}

(* Module files in the separate style whose body declares the port a by
   two statements: in one direction or in two, with or without a range. *)

RepeatedSources ==
    {module_text(name_list(1), statement(1, first, width) \o statement(1, second, other)) :
        first \in Directions, second \in Directions, width \in Ranges, other \in Ranges}

IrregularSources == TwoModuleSources \cup OwnRangeSources \cup RepeatedSources

InitFiles ==
    /\ library = <<>>
    /\ modules = <<>>
    /\ wires = <<>>
    /\ last \in {[NoOp EXCEPT !.source = source] : source \in IrregularSources}

SpecFiles == InitFiles /\ [][NextParse]_vars

-----------------------------------------------------------------------------
(* Properties of the canvas *)

\* the wires that end at a port of the item with this id
inbound(id, port) ==
    {i \in 1..Len(wires) : wires[i].end_module = id /\ wires[i].end_port = port}

\* the items other than the pressed one with a port under the release position
others_at(press, releasePos) == ItemsAt(releasePos) \ {press.start_module}

\* the presses that start a wire, on every position a port is drawn at
Presses == {press \in {mousePressEvent(pressPos) : pressPos \in PortScenePositions} :
                press.drawing_wire}

(* C1: every input port of every instance on the canvas is the (end_module,
   end_port) of at most one wire of DesignCanvas.wires. *)
InputDrivenAtMostOnce ==
    \A m \in 1..Len(modules) : \A port \in Range(modules[m].item.ports.inputs) :
        Cardinality(inbound(modules[m].item.id, port)) <= 1

\* two wires are stored and a gesture from an output onto a driven input was turned away
InputDrivenAtMostOnce_reached ==
    /\ last.op = "wire_gesture"
    /\ last.k = 0
    /\ last.warnings = {AlreadyConnected}
    /\ ~last.swapped
    /\ Len(wires) = 2

(* C2: every stored wire has its start_port among the outputs of its
   start_module and its end_port among the inputs of its end_module. *)
WiresRunOutputToInput ==
    \A i \in 1..Len(wires) :
        /\ wires[i].start_module \in ItemIds =>
              wires[i].start_port \in Range(ItemOf(wires[i].start_module).ports.outputs)
        /\ wires[i].end_module \in ItemIds =>
              wires[i].end_port \in Range(ItemOf(wires[i].end_module).ports.inputs)

(* C3: every wire has both its start_module and its end_module among the
   values of DesignCanvas.modules. *)
WireEndsOnCanvas ==
    \A i \in 1..Len(wires) :
        wires[i].start_module \in ItemIds /\ wires[i].end_module \in ItemIds

\* an instance with two wires was deleted, two instances are left and no wire
WireEndsOnCanvas_reached ==
    /\ last.op = "delete_selected_items"
    /\ last.n = 1
    /\ last.k = 2
    /\ Len(modules) = 2
    /\ wires = <<>>

(* C4: no two instances on the canvas have the same name, and each key of
   DesignCanvas.modules is the name of the instance it maps to. *)
InstanceNamesUnique ==
    /\ \A i, j \in 1..Len(modules) :
          modules[i].item.name = modules[j].item.name => i = j
    /\ \A i \in 1..Len(modules) : modules[i].key = modules[i].item.name

\* an instance of type mux has the name mux_1, and an instance of type mux_1 is beside it
InstanceNamesUnique_reached ==
    \E i, j \in 1..Len(modules) :
        /\ modules[i].item.type = <<"mux">>
        /\ modules[i].key = <<"mux", "1">>
        /\ modules[j].item.type = <<"mux", "1">>
        /\ modules[j].key = <<"mux", "1", "1">>

\* the i-th name of the sequence T, T_1, T_2, ...
name_sequence(T, i) == IF i = 0 THEN T ELSE T \o <<ToString(i)>>

\* the first name of the sequence that no instance on the canvas has
first_unused_name(T) ==
    name_sequence(T, CHOOSE i \in 0..Len(modules) :
                        /\ name_sequence(T, i) \notin Keys
                        /\ \A j \in 0..(i - 1) : name_sequence(T, j) \in Keys)

\* the placement added one instance of type T, after the others, under that name
placed(T) ==
    /\ Len(modules') = Len(modules) + 1
    /\ SubSeq(modules', 1, Len(modules)) = modules
    /\ modules'[Len(modules')].key = first_unused_name(T)
    /\ modules'[Len(modules')].item.name = first_unused_name(T)
    /\ modules'[Len(modules')].item.type = T

(* C5: a placement of type T adds exactly one instance, named with the first
   name of T, T_1, T_2, ... that no instance on the canvas has. *)
PlacementTakesFirstUnusedName ==
    [][/\ \A T \in DOMAIN library : add_module_from_library(T) => placed(T)
       /\ add_module_manually(TypedMux1) => placed(TypedMux1.module_name)]_vars

\* mux was placed again after its first instance was deleted and mux_1 stayed
PlacementTakesFirstUnusedName_reached ==
    /\ last.op = "add_module_from_library"
    /\ Len(modules) >= 2
    /\ modules[Len(modules)].key = <<"mux">>
    /\ \E i \in 1..(Len(modules) - 1) :
          modules[i].key = <<"mux", "1">> /\ modules[i].item.type = <<"mux">>

\* no wire has one instance at both ends
NoSelfWire ==
    \A i \in 1..Len(wires) : wires[i].start_module # wires[i].end_module

\* the release position lies on a port of the pressed instance and of no other
released_on_pressed_instance(press, releasePos) ==
    ItemsAt(releasePos) = {press.start_module}

(* C6: no wire has start_module equal to end_module, and a gesture pressed on a
   port of an instance and released on a port of the same instance adds no wire. *)
SelfConnectionRejected ==
    /\ NoSelfWire
    /\ \A press \in Presses, releasePos \in PortScenePositions :
          released_on_pressed_instance(press, releasePos)
          => mouseReleaseEvent(press, releasePos).ws = wires

\* a gesture was released on a port of the pressed instance, and nothing was added or shown
SelfConnectionRejected_reached ==
    /\ last.op = "wire_gesture"
    /\ last.self_hit
    /\ last.k = 0
    /\ last.warnings = {}

\* the ports of other instances under the release all have the direction of the pressed port
same_direction(press, releasePos) ==
    /\ others_at(press, releasePos) # {}
    /\ \A id \in others_at(press, releasePos) :
          \E sm \in {ItemOf(press.start_module)}, module \in {ItemOf(id)} :
              \E port \in {port_at_scene_pos(module, releasePos)} :
                  \/ /\ press.start_port \in Range(sm.ports.outputs)
                     /\ port \in Range(module.ports.outputs)
                  \/ /\ press.start_port \in Range(sm.ports.inputs)
                     /\ port \in Range(module.ports.inputs)

(* C7: a gesture between two output ports, or between two input ports, of two
   different instances leaves DesignCanvas.wires as it was; the handler assigns
   to no instance. *)
SameDirectionRejected ==
    \A press \in Presses, releasePos \in PortScenePositions :
        same_direction(press, releasePos)
        => mouseReleaseEvent(press, releasePos).ws = wires

\* a gesture between two ports of one direction was turned away
SameDirectionRejected_reached ==
    /\ last.op = "wire_gesture"
    /\ last.k = 0
    /\ last.warnings = {InvalidConnection}
    /\ ~last.self_hit

\* the release lies on a port of one other instance, and the input end of the
\* pair (pressed port, port under the release) is the end of a stored wire
onto_driven_input(press, releasePos) ==
    /\ Cardinality(others_at(press, releasePos)) = 1
    /\ \A id \in others_at(press, releasePos) :
          \E sm \in {ItemOf(press.start_module)}, module \in {ItemOf(id)} :
              \E port \in {port_at_scene_pos(module, releasePos)} :
                  \/ /\ output_to_input(sm, press.start_port, module, port)
                     /\ inbound(id, port) # {}
                  \/ /\ input_to_output(sm, press.start_port, module, port)
                     /\ inbound(sm.id, press.start_port) # {}

GestureAppendsOneWire ==
    [][last'.op = "wire_gesture" =>
        /\ modules' = modules
        /\ \/ wires' = wires
           \/ /\ Len(wires') = Len(wires) + 1
              /\ SubSeq(wires', 1, Len(wires)) = wires]_vars

\* the modules and the wires the deletion of one selected instance has to
\* leave: the other instances and the wires that do not touch it, in their order
without_instance(item) ==
    [modules |-> SelectSeq(modules, LAMBDA e : e.item.id # item.id),
     wires   |-> SelectSeq(wires, LAMBDA w : w.start_module # item.id /\ w.end_module # item.id)]

(* C10: delete_selected_items with one selected instance removes that instance
   and exactly the wires that start or end at it, and leaves every other
   instance and every other wire unchanged and in the same order. *)
DeleteTakesOwnWiresOnly ==
    \A sel \in Selections :
        Len(sel) = 1 =>
            \E st \in {delete_loop(1, sel, [modules |-> modules, wires |-> wires, raised |-> FALSE])} :
                /\ st.modules = without_instance(sel[1].item).modules
                /\ st.wires = without_instance(sel[1].item).wires
                /\ ~st.raised

\* one instance was deleted with a wire of its own, and a wire between two others stayed
DeleteTakesOwnWiresOnly_reached ==
    /\ last.op = "delete_selected_items"
    /\ last.n = 1
    /\ last.k = 1
    /\ Len(wires) = 1

\* the selection that holds the i-th stored wire alone
wire_alone(i) == <<[kind |-> "wire", item |-> wires[i]]>>

(* C11: every stored wire can be selected alone, and delete_selected_items then
   removes exactly that wire: no instance is removed and every other wire
   stays, in the same order. *)
WireCanBeDeletedAlone ==
    \A i \in 1..Len(wires) :
        /\ wire_alone(i) \in Selections
        /\ \E st \in {delete_loop(1, wire_alone(i),
                                  [modules |-> modules, wires |-> wires, raised |-> FALSE])} :
              /\ st.modules = modules
              /\ st.wires = SubSeq(wires, 1, i - 1) \o SubSeq(wires, i + 1, Len(wires))
              /\ ~st.raised

-----------------------------------------------------------------------------
(* Properties of the generated text *)

(* C12: a generation on an empty canvas is refused: for every answer the
   dialogs could give, it shows the warning, does not ask for the output file,
   makes no text and writes no file. *)
EmptyCanvasRefused ==
    modules = <<>> =>
        /\ \A filename \in Filenames, top_name \in TopNames, timestamp \in Timestamps :
              generate_systemverilog(filename, top_name, timestamp)
                  = Generated({EmptyDesign}, FALSE, <<>>, FALSE)
        /\ last.op = "generate_systemverilog" =>
              ~last.asked /\ last.text = <<>> /\ ~last.written /\ last.warnings = {EmptyDesign}

EmptyCanvasRefused_reached == last.op = "generate_systemverilog" /\ modules = <<>>


\* Reading a generated text: the lines between "module <top> (" and ");",
\* and the lines that declare an internal wire.
port_section(text) ==
    SubSeq(text, 1 + (CHOOSE i \in 1..Len(text) : text[i] # <<>> /\ text[i][1] = "module "),
                 (CHOOSE i \in 1..Len(text) :
                      text[i] = <<");">> /\ \A j \in 1..(i - 1) : text[j] # <<");">>) - 1)
internal_wire_lines(text) == SelectSeq(text, LAMBDA l : l # <<>> /\ l[1] = "  wire ")

without_comma(line) ==
    IF line # <<>> /\ line[Len(line)] = "," THEN SubSeq(line, 1, Len(line) - 1) ELSE line

\* the line declares a port of the given direction and name, with or without a range
declares(line, direction, name) ==
    \E l \in {without_comma(line)} :
        /\ Len(l) >= 3 + Len(chars(name))
        /\ SubSeq(l, 1, 3) = <<"  ", direction, " wire ">>
        /\ SubSeq(l, Len(l) - Len(chars(name)) + 1, Len(l)) = chars(name)
        /\ \/ Len(l) = 3 + Len(chars(name))
           \/ Len(l) = 6 + Len(chars(name)) /\ l[4] = "[" /\ l[6] = "]"

is_port_declaration(line) == Len(line) >= 3 /\ line[1] = "  " /\ line[3] = " wire "

\* the texts generate_systemverilog makes of the canvas, over the answers of its dialogs
texts ==
    {generate_systemverilog(filename, top_name, timestamp).text :
        filename \in Filenames \ {NoFilename}, top_name \in TopNames, timestamp \in Timestamps}

(* C13: in every generated text, an input p of instance i is declared as the
   input i_p exactly when no wire ends at it, an output p as the output i_p
   exactly when no wire starts at it, never with the other direction, and
   the text declares no other port; without wires every port of every
   instance is declared and the text has no internal wire declaration. *)
ExternalIffUnwired ==
    modules # <<>> =>
        \A text \in texts :
            \E section \in {port_section(text)} :
                /\ \A m \in 1..Len(modules) :
                      \E i \in {modules[m].item} :
                          /\ \A p \in Range(i.ports.inputs) :
                                /\ (\E n \in 1..Len(section) :
                                        declares(section[n], "input", Append(i.name, PortName(p))))
                                   <=> ~\E w \in Range(wires) : w.end_module = i.id /\ w.end_port = p
                                /\ ~\E n \in 1..Len(section) :
                                        declares(section[n], "output", Append(i.name, PortName(p)))
                          /\ \A p \in Range(i.ports.outputs) :
                                /\ (\E n \in 1..Len(section) :
                                        declares(section[n], "output", Append(i.name, PortName(p))))
                                   <=> ~\E w \in Range(wires) : w.start_module = i.id /\ w.start_port = p
                                /\ ~\E n \in 1..Len(section) :
                                        declares(section[n], "input", Append(i.name, PortName(p)))
                /\ \A n \in 1..Len(section) :
                      is_port_declaration(section[n]) =>
                          \E m \in 1..Len(modules) :
                              \E p \in Range(modules[m].item.ports.inputs \o modules[m].item.ports.outputs) :
                                  \E d \in {"input", "output"} :
                                      /\ declares(section[n], d, Append(modules[m].item.name, PortName(p)))
                                      /\ \A k \in 1..Len(section) :
                                            declares(section[k], d, Append(modules[m].item.name, PortName(p)))
                                                => k = n
                /\ wires = <<>> =>
                      /\ internal_wire_lines(text) = <<>>
                      /\ \A n \in 1..Len(section) : is_port_declaration(section[n])
                      /\ Len(section) = Len(Flatten([m \in 1..Len(modules) |->
                                           modules[m].item.ports.inputs \o modules[m].item.ports.outputs]))

\* a text was written for a canvas on which some ports are wired and some are not
ExternalIffUnwired_reached ==
    /\ last.op = "generate_systemverilog" /\ last.written
    /\ wires # <<>>
    /\ \E n \in 1..Len(port_section(last.text)) : is_port_declaration(port_section(last.text)[n])


\* the range the parser recorded for the port of that name in the interface of a type
recorded_width(type, name) ==
    LET entry == parse_file("lib.sv")[type]
    IN  PortWidth(CHOOSE port \in Range(entry.inputs \o entry.outputs) : PortName(port) = name)

\* "[range]" for a recorded range, nothing for none
range_text(width) == IF width # "" THEN <<"[", width, "]">> ELSE <<>>

(* C14: in every generated text, every external port of an instance is
   declared with the range the parser recorded for that port in the
   interface of the instance's type, and every internal wire that starts at
   an output of an instance is declared with the range recorded for that
   output; this for the first and for every later instance of a type. *)
WidthsAsParsed ==
    modules # <<>> =>
        \A text \in texts :
            /\ \A m \in 1..Len(modules) :
                  \E i \in {modules[m].item} :
                      /\ \A p \in Range(i.ports.inputs) :
                            (~\E w \in Range(wires) : w.end_module = i.id /\ w.end_port = p)
                            => \E line \in Range(port_section(text)) :
                                  without_comma(line) =
                                      <<"  ", "input", " wire ">>
                                      \o range_text(recorded_width(i.type, PortName(p)))
                                      \o chars(Append(i.name, PortName(p)))
                      /\ \A p \in Range(i.ports.outputs) :
                            (~\E w \in Range(wires) : w.start_module = i.id /\ w.start_port = p)
                            => \E line \in Range(port_section(text)) :
                                  without_comma(line) =
                                      <<"  ", "output", " wire ">>
                                      \o range_text(recorded_width(i.type, PortName(p)))
                                      \o chars(Append(i.name, PortName(p)))
            /\ \A k \in 1..Len(wires) :
                  \E i \in {ItemOf(wires[k].start_module)} :
                      wires[k].start_port \in Range(i.ports.outputs)
                      => \E line \in {internal_wire_lines(text)[k]} :
                            \E prefix \in {<<"  wire ">>
                                           \o range_text(recorded_width(i.type, PortName(wires[k].start_port)))
                                           \o <<"w">>} :
                                Len(line) > Len(prefix) /\ SubSeq(line, 1, Len(prefix)) = prefix


\* the name the declaration of a wire is to carry
declared_name(wire) ==
    <<"w">> \o ItemOf(wire.start_module).name \o <<PortName(wire.start_port)>>
        \o <<"to">> \o ItemOf(wire.end_module).name \o <<PortName(wire.end_port)>>

\* the line declares an internal wire of that name, with or without a range
declares_wire(line, name) ==
    /\ Len(line) >= 2 + Len(chars(name))
    /\ line[1] = "  wire "
    /\ SubSeq(line, Len(line) - Len(chars(name)), Len(line)) = chars(name) \o <<";">>
    /\ \/ Len(line) = 2 + Len(chars(name))
       \/ Len(line) = 5 + Len(chars(name)) /\ line[2] = "[" /\ line[4] = "]"

(* C15: in every generated text the internal wire declarations are as many
   as the wires of the canvas, and the k-th of them declares the name
   w_<startInstance>_<startPort>_to_<endInstance>_<endPort> of the k-th wire. *)
OneDeclarationPerWire ==
    modules # <<>> =>
        \A text \in texts :
            \E lines \in {internal_wire_lines(text)} :
                /\ Len(lines) = Len(wires)
                /\ \A k \in 1..Len(wires) : declares_wire(lines[k], declared_name(wires[k]))

\* a text was written for a canvas with two different wires
OneDeclarationPerWire_reached ==
    /\ last.op = "generate_systemverilog" /\ last.written
    /\ Len(wires) = 2 /\ wires[1] # wires[2]
    /\ Len(internal_wire_lines(last.text)) = 2


(* C16: in every generated text, every instance has the instantiation line
   "  <type> <instance> (" where <type> is the library key the instance was
   placed from. *)
InstantiatedByType ==
    modules # <<>> =>
        \A text \in texts :
            \A m \in 1..Len(modules) :
                \E line \in Range(text) :
                    line = <<"  ">> \o chars(modules[m].item.type) \o <<" ">>
                           \o chars(modules[m].key) \o <<" (">>


(* C17: two generations on the same canvas, with the same output file and
   the same top-level name, make the same text, whatever the time of day of
   each of them. *)
SameTextOnRerun ==
    modules # <<>> =>
        \A filename \in Filenames \ {NoFilename}, top_name \in TopNames :
            \A first \in Timestamps, second \in Timestamps :
                generate_systemverilog(filename, top_name, first).text
                    = generate_systemverilog(filename, top_name, second).text


-----------------------------------------------------------------------------
(* Properties of the library *)

(* C18: a placement, from the library or by a typed name, leaves every
   entry the library held before it with the same inputs and outputs,
   ranges included. *)
LibraryEntryImmutable ==
    [][last'.op \in {"add_module_from_library", "add_module_manually"}
          => \A type \in DOMAIN library : library'[type] = library[type]]_vars


-----------------------------------------------------------------------------
(* Properties of the parser *)

\* the interface parse_file makes of module m of the file at hand
interface_at_hand == parse_content(last.source)[<<"m">>]

\* the port list of the file at hand
port_list_at_hand == module_matches(last.source, 1)[1].port_list_text

(* C19: the interface parse_file returns for a file that names each port
   once holds no port name twice in inputs plus outputs, whether the file
   declares the directions inline or by statements of the body, with or
   without ranges; and the library entry loaded from the file is that
   interface. *)
PortNamesUniqueInInterface ==
    last.op = "load_module" /\ last.source # <<>> =>
        /\ library[<<"m">>] = interface_at_hand
        /\ \E all \in {library[<<"m">>].inputs \o library[<<"m">>].outputs} :
              \A i \in 1..Len(all), j \in 1..Len(all) :
                  PortName(all[i]) = PortName(all[j]) => i = j


\* the positions of the port identifiers in an inline port list
identifier_positions(tokens) ==
    {i \in 1..Len(tokens) :
        /\ tokens[i] \notin Directions \cup Types \cup Punctuation
        /\ ~(i > 1 /\ tokens[i - 1] = "[")}

\* the direction keyword nearest before position i
nearest_keyword(tokens, i) ==
    tokens[CHOOSE j \in 1..(i - 1) :
               tokens[j] \in Directions /\ \A k \in (j + 1)..(i - 1) : tokens[k] \notin Directions]

\* how often a name occurs in a list of ports
occurrences(name, ports) == Cardinality({n \in 1..Len(ports) : PortName(ports[n]) = name})

(* C20: for an inline port list that starts with a direction keyword,
   whatever the order of its keywords, parse_ansi_port_list returns every
   identifier of the list once in the list of the nearest keyword before
   it, and in no other list. *)
PortsTaggedByNearestKeyword ==
    last.source # <<>> /\ port_list_at_hand[1] \in Directions =>
        \E found \in {parse_ansi_port_list(port_list_at_hand)} :
            \A i \in identifier_positions(port_list_at_hand) :
                \E name \in {port_list_at_hand[i]} :
                    \E keyword \in {nearest_keyword(port_list_at_hand, i)} :
                        /\ occurrences(name, found.inputs) = (IF keyword = "input" THEN 1 ELSE 0)
                        /\ occurrences(name, found.outputs) = (IF keyword = "output" THEN 1 ELSE 0)
                        /\ occurrences(name, found.inouts) = (IF keyword = "inout" THEN 1 ELSE 0)


\* the text of module m in a file, from its module keyword to its endmodule
well_formed_part(content) ==
    LET start == CHOOSE i \in 1..(Len(content) - 1) : content[i] = "module" /\ content[i + 1] = "m"
    IN  SubSeq(content, start, next_index(content, start, {"endmodule"}))

(* C21: when a file holds a module that the module pattern does not match
   and a well-formed module m, loading the file gives the library the entry
   of m alone, with the ports parse_file finds for the text of m by itself,
   and no entry for the malformed module. *)
MalformedModuleSkipped ==
    (last.op = "load_module" /\ last.source \in TwoModuleSources) =>
        /\ DOMAIN library = {<<"m">>}
        /\ library = parse_content(well_formed_part(last.source))


-----------------------------------------------------------------------------
(* Fan-out *)

\* the wires of a list that start at a port
outbound(ws, id, port) ==
    {i \in 1..Len(ws) : ws[i].start_module = id /\ ws[i].start_port = port}

\* the press lies on an output, and the release on a port of one other
\* instance, an input that no wire ends at
output_onto_free_input(press, releasePos) ==
    /\ press.start_port \in Range(ItemOf(press.start_module).ports.outputs)
    /\ Cardinality(others_at(press, releasePos)) = 1
    /\ \A id \in others_at(press, releasePos) :
          \E port \in {port_at_scene_pos(ItemOf(id), releasePos)} :
              port \in Range(ItemOf(id).ports.inputs) /\ inbound(id, port) = {}

(* C22: a gesture from an output that is the start of k wires, for any k,
   to an input of another instance that no wire ends at appends the wire
   between the two ports, shows no warning, and leaves the output the start
   of k + 1 wires. *)
FanOutUnlimited ==
    \A press \in Presses, releasePos \in PortScenePositions :
        output_onto_free_input(press, releasePos) =>
            \E released \in {mouseReleaseEvent(press, releasePos)} :
                \E id \in others_at(press, releasePos) :
                    /\ released.ws = Append(wires, WireItem(press.start_module, id, press.start_port,
                                                port_at_scene_pos(ItemOf(id), releasePos)))
                    /\ released.warnings = {}
                    /\ Cardinality(outbound(released.ws, press.start_module, press.start_port))
                          = Cardinality(outbound(wires, press.start_module, press.start_port)) + 1

\* a gesture added a second wire to an output that was the start of one
FanOutUnlimited_reached ==
    /\ last.op = "wire_gesture"
    /\ last.k = 1
    /\ last.warnings = {}
    /\ ~last.swapped
    /\ Len(wires) = 2
    /\ wires[1].start_module = wires[2].start_module
    /\ wires[1].start_port = wires[2].start_port
    /\ wires[1].start_port \in Range(ItemOf(wires[1].start_module).ports.outputs)
    /\ wires[1].end_module # wires[2].end_module


-----------------------------------------------------------------------------
(* Order of the generated text *)

\* the numbers of the lines of a text that declare an external port of a direction
port_lines(text, direction) ==
    {n \in 1..Len(text) : is_port_declaration(text[n]) /\ text[n][2] = direction}

\* the numbers of the lines that declare an internal wire
wire_line_numbers(text) == {n \in 1..Len(text) : text[n] # <<>> /\ text[n][1] = "  wire "}

\* the lines that open an instantiation block, in the order of the text
block_lines(text) ==
    SelectSeq(text, LAMBDA l : Len(l) >= 4 /\ l[1] = "  " /\ l[Len(l)] = " (")
block_line_numbers(text) ==
    {n \in 1..Len(text) : Len(text[n]) >= 4 /\ text[n][1] = "  " /\ text[n][Len(text[n])] = " ("}

\* the line opens the block of the instance of that name
opens_block_of(line, name) ==
    /\ Len(line) >= 3 + Len(chars(name))
    /\ SubSeq(line, Len(line) - Len(chars(name)) - 1, Len(line)) = <<" ">> \o chars(name) \o <<" (">>

\* the sections of every text follow each other, and the blocks follow the dict
sections_in_order ==
    modules # <<>> =>
        \A text \in texts :
            /\ \A a \in port_lines(text, "input"), b \in port_lines(text, "output") : a < b
            /\ \A a \in port_lines(text, "input") \cup port_lines(text, "output"),
                  b \in wire_line_numbers(text) \cup block_line_numbers(text) : a < b
            /\ \A a \in wire_line_numbers(text), b \in block_line_numbers(text) : a < b
            /\ Len(block_lines(text)) = Len(modules)
            /\ \A m \in 1..Len(modules) : opens_block_of(block_lines(text)[m], modules[m].key)

\* the place of a name in a dict
place_of(dict, key) == CHOOSE i \in 1..Len(dict) : dict[i].key = key

\* a step leaves the instances that stay in their order and puts a new instance after them
creation_order_kept ==
    \A i \in 1..Len(modules'), j \in 1..Len(modules') :
        i < j =>
            \/ modules'[i].key \in Keys /\ modules'[j].key \notin Keys
            \/ /\ modules'[i].key \in Keys /\ modules'[j].key \in Keys
               /\ place_of(modules, modules'[i].key) < place_of(modules, modules'[j].key)

(* C23: in every generated text the external input declarations come before
   the external output declarations, these before the internal wire
   declarations, these before the instantiation blocks, and the blocks
   follow the order of DesignCanvas.modules, which every step keeps equal
   to the order of creation: instances that stay keep their order and a new
   instance comes after all others, also after a deletion. *)
TextInCreationOrder == [](sections_in_order) /\ [][creation_order_kept]_vars

\* a text was written after an instance was deleted and its name placed again behind a later one
TextInCreationOrder_reached ==
    /\ last.op = "generate_systemverilog" /\ last.written
    /\ Len(modules) = 3
    /\ modules[1].key = <<"inv", "1">>
    /\ modules[2].key = <<"inv">>
    /\ wires # <<>>


-----------------------------------------------------------------------------
(* Bindings *)

\* the lines between the line that opens the m-th instantiation block and its "  );"
block_body(text, m) ==
    LET opening == CHOOSE n \in block_line_numbers(text) :
                       Cardinality({k \in block_line_numbers(text) : k <= n}) = m
        closing == CHOOSE n \in (opening + 1)..Len(text) :
                       text[n] = <<"  );">> /\ \A k \in (opening + 1)..(n - 1) : text[k] # <<"  );">>
    IN  SubSeq(text, opening + 1, closing - 1)

\* the line binds the port to the signal
binds(line, port, signal) ==
    without_comma(line) = <<"    .", PortName(port), "(">> \o chars(signal) \o <<")">>

\* the wires that start or end at a port of an instance
attached(id, port) ==
    {i \in 1..Len(wires) : \/ wires[i].start_module = id /\ wires[i].start_port = port
                           \/ wires[i].end_module = id /\ wires[i].end_port = port}

(* C24: in every generated text the block of an instance holds one binding
   line for each port of the instance, inputs first and then outputs, in
   the order of the interface: the port of a wire is bound to the name of a
   wire attached to it, a port without wire to <instance>_<port>. *)
OneBindingPerPort ==
    modules # <<>> =>
        \A text \in texts :
            \A m \in 1..Len(modules) :
                \E i \in {modules[m].item}, body \in {block_body(text, m)} :
                    \E ports \in {i.ports.inputs \o i.ports.outputs} :
                        /\ Len(body) = Len(ports)
                        /\ \A k \in 1..Len(ports) :
                              IF attached(i.id, ports[k]) = {}
                              THEN binds(body[k], ports[k], Append(i.name, PortName(ports[k])))
                              ELSE \E w \in attached(i.id, ports[k]) :
                                      binds(body[k], ports[k], declared_name(wires[w]))


\* the line binds some port to the signal
binds_signal(line, signal) ==
    /\ Len(line) >= 3 /\ line[1] = "    ."
    /\ SubSeq(without_comma(line), 3, Len(without_comma(line))) = <<"(">> \o chars(signal) \o <<")">>

\* the bindings of a text to the signal: the block and the line of each
bindings(text, signal) ==
    {b \in (1..Len(modules)) \X (1..Len(text)) :
        b[2] <= Len(block_body(text, b[1])) /\ binds_signal(block_body(text, b[1])[b[2]], signal)}

\* the place of an instance in DesignCanvas.modules
block_of(id) == CHOOSE m \in 1..Len(modules) : modules[m].item.id = id

(* C28: in every generated text of a canvas whose wires run from an output
   to an input, the signal name of each wire, also of a wire that shares its
   output with another wire, appears in exactly two bindings: at the start
   port in the block of the start instance and at the end port in the block
   of the end instance. *)
TwoBindingsPerWire ==
    (modules # <<>> /\ WiresRunOutputToInput) =>
        \A text \in texts :
            \A w \in 1..Len(wires) :
                \E B \in {bindings(text, declared_name(wires[w]))} :
                    /\ Cardinality(B) = 2
                    /\ \E b \in B :
                          /\ b[1] = block_of(wires[w].start_module)
                          /\ binds(block_body(text, b[1])[b[2]], wires[w].start_port,
                                   declared_name(wires[w]))
                    /\ \E b \in B :
                          /\ b[1] = block_of(wires[w].end_module)
                          /\ binds(block_body(text, b[1])[b[2]], wires[w].end_port,
                                   declared_name(wires[w]))


-----------------------------------------------------------------------------
(* Ranges and declarations *)

\* the range that follows the token at position i, "" when none follows
range_after(tokens, i) ==
    IF i + 2 <= Len(tokens) /\ tokens[i + 1] = "[" THEN tokens[i + 2] ELSE ""

\* the ports an inline group is to give: every name with its own range, or
\* with the range of the group when it has none
ports_of_group(tokens) ==
    LET at == SelectSeqIdx([i \in 1..Len(tokens) |-> i], identifier_positions(tokens))
    IN  [k \in 1..Len(at) |->
            <<tokens[at[k]],
              IF range_after(tokens, at[k]) # "" THEN range_after(tokens, at[k])
              ELSE range_after(tokens, 1)>>]

(* C25: the interface loaded from a module with one inline group holds
   the names of the group in their order, each with the range written after
   the name itself when there is one and with the range of the group
   otherwise; "input a[7:0], b, c[WIDTH-1:0]" gives a with 7:0, b without
   range and c with WIDTH-1:0. *)
OwnRangeOverridesGroupRange ==
    (last.op = "load_module" /\ last.source \in OwnRangeSources) =>
        \E ports \in {ports_of_group(port_list_at_hand)} :
            library[<<"m">>] = IF port_list_at_hand[1] = "input"
                               THEN [inputs |-> ports, outputs |-> <<>>]
                               ELSE [inputs |-> <<>>, outputs |-> ports]

\* the interface that holds the one port as its first declaration says
declared_once(keyword, width) ==
    IF keyword = "input" THEN [inputs |-> <<<<"a", width>>>>, outputs |-> <<>>]
    ELSE [inputs |-> <<>>, outputs |-> <<<<"a", width>>>>]

(* C26: when the body of a module in the separate style declares a name by
   more than one statement, in one direction with different widths or in two
   directions, the interface holds the name once, with the direction and the
   width of its first declaration. *)
FirstDeclarationWins ==
    (last.op = "load_module" /\ last.source \in RepeatedSources) =>
        library[<<"m">>] = declared_once(last.source[6], range_after(last.source, 6))

-----------------------------------------------------------------------------
(* Reconciliation of the port list with the declarations *)

\* all_port_names of parse_file: the ports of the inline lists, or else the names of the port list
all_port_names(port_list_text) ==
    LET ansi == parse_ansi_port_list(port_list_text)
        names == parse_port_list(port_list_text)
    IN  IF ansi.inputs \o ansi.outputs \o ansi.inouts # <<>>
        THEN [i \in 1..Len(ansi.inputs \o ansi.outputs \o ansi.inouts) |->
                 (ansi.inputs \o ansi.outputs \o ansi.inouts)[i][1]]
        ELSE names

\* a declaration put the name into a list: as an output or inout, or as an input with a width
classified(name, info) ==
    \/ \E port \in Range(info.outputs) : port[1] = name
    \/ \E port \in Range(info.inputs) : port[1] = name /\ port[2] # ""

(* C27: a name of the port list that no declaration classified is held as
   a plain input, and a name that a declaration classified as output or
   inout, or as an input with a width, is not held as a plain input as
   well. *)
PlainInputOnlyWhenUnclassified ==
    (last.op = "load_module" /\ last.source \in Sources) =>
        \A name \in Range(all_port_names(port_list_at_hand)) :
            <<name, "">> \in Range(library[<<"m">>].inputs)
                <=> ~classified(name, library[<<"m">>])

-----------------------------------------------------------------------------
(* Declared names *)

RECURSIVE spelled(_)
\* the characters of a name written piece by piece
spelled(pieces) == IF pieces = <<>> THEN "" ELSE Head(pieces) \o spelled(Tail(pieces))

\* the name a declaration line declares: the pieces behind the keywords and the range
name_declared_by(line) ==
    LET l == IF line[Len(line)] \in {",", ";"} THEN SubSeq(line, 1, Len(line) - 1) ELSE line
        from == IF is_port_declaration(line) THEN 4 ELSE 2
    IN  IF Len(l) >= from /\ l[from] = "[" THEN SubSeq(l, from + 3, Len(l)) ELSE SubSeq(l, from, Len(l))

(* C29: in every generated text the declared names are pairwise distinct:
   no two lines that declare an external port spell the same name, and no
   two lines that declare an internal wire spell the same name, also when
   the names of instances and ports hold underscores. *)
DeclaredNamesDistinct ==
    modules # <<>> =>
        \A text \in texts :
            /\ \A a \in port_lines(text, "input") \cup port_lines(text, "output"),
                  b \in port_lines(text, "input") \cup port_lines(text, "output") :
                  a # b => spelled(name_declared_by(text[a])) # spelled(name_declared_by(text[b]))
            /\ \A a \in wire_line_numbers(text), b \in wire_line_numbers(text) :
                  a # b => spelled(name_declared_by(text[a])) # spelled(name_declared_by(text[b]))

-----------------------------------------------------------------------------
(* Deletion of instances and wires together *)

\* the instances and the wires of the canvas as items of a selection
canvas_items ==
    Selectable \cup {[kind |-> "wire", item |-> wires[i]] : i \in 1..Len(wires)}

\* the lists of one or two distinct items of which at least one is a wire
selections_with_wires ==
    {sel \in {<<a>> : a \in canvas_items} \cup (canvas_items \X canvas_items) :
        /\ \E k \in 1..Len(sel) : sel[k].kind = "wire"
        /\ Len(sel) = 2 => sel[1] # sel[2]}

\* the item is in the selection, or is a wire that touches a selected instance
goes_with(sel, kind, item) ==
    \/ \E k \in 1..Len(sel) : sel[k].kind = kind /\ sel[k].item = item
    \/ /\ kind = "wire"
       /\ \E k \in 1..Len(sel) :
             sel[k].kind = "module" /\ sel[k].item.id \in {item.start_module, item.end_module}

(* C30: every list of distinct instances and wires of the canvas, in any
   order, also one whose wire touches its instance, is a selection that
   delete_selected_items can be run on; the loop then raises nothing and
   removes exactly the selected instances, the selected wires and the wires
   that touch a selected instance. *)
AnySelectionDeleted ==
    \A sel \in selections_with_wires :
        /\ sel \in Selections
        /\ \E st \in {delete_loop(1, sel, [modules |-> modules, wires |-> wires, raised |-> FALSE])} :
              /\ ~st.raised
              /\ st.modules = SelectSeq(modules, LAMBDA m : ~goes_with(sel, "module", m.item))
              /\ st.wires = SelectSeq(wires, LAMBDA w : ~goes_with(sel, "wire", w))

====
